---- MODULE Spec2Model ----
(***************************************************************************)
(* Outfit recommendation engine (lib/recommendation-engine) and its        *)
(* catalog provider.  Scores are exact rationals [n, d]; matrix entries    *)
(* are kept in hundredths (0.85 is 85).                                    *)
(***************************************************************************)
EXTENDS Integers, Sequences, FiniteSets, TLC

\* ---------------------------------------------------------------- bounds
MaxCatalog ==
    5

MaxNumOutfits ==
    1

\* the longest item list handed to a scorer called on its own
MaxItems ==
    3

\* the longest candidate list handed to selectBestItem called on its own
MaxPool ==
    4

\* the most accessories of a catalog with accessories to choose from
MaxAccessories ==
    3

\* a num_outfits larger than the number of outfits a catalog can give
ManyOutfits ==
    10

\* the most tops, and the most bottoms, of a catalog shown by the page
MaxPageProducts ==
    13

\* ------------------------------------------------------- program constants
DefaultNumOutfits ==
    3

AttemptFactor ==
    5

TopSliceSize ==
    3

\* PRODUCTS_PER_PAGE
ProductsPerPage ==
    10

\* a missing optional field (undefined) and a null slot
Absent ==
    "undefined"

NULL ==
    [sku_id |-> "null"]

\* ------------------------------------------------------ scoring matrices
COLOR_HARMONY ==
    [ black |-> [black |-> 70, white |-> 100, gray |-> 95, navy |-> 90, brown |-> 80, beige |-> 90, cream |-> 95, green |-> 80, blue |-> 85, red |-> 75, pink |-> 70, purple |-> 70, orange |-> 70, multi |-> 60],
      white |-> [black |-> 100, white |-> 60, gray |-> 90, navy |-> 95, brown |-> 85, beige |-> 90, cream |-> 85, green |-> 85, blue |-> 90, red |-> 85, pink |-> 80, purple |-> 80, orange |-> 85, multi |-> 70],
      gray |-> [black |-> 95, white |-> 90, gray |-> 70, navy |-> 90, brown |-> 75, beige |-> 85, cream |-> 90, green |-> 80, blue |-> 85, red |-> 70, pink |-> 75, purple |-> 75, orange |-> 70, multi |-> 60],
      navy |-> [black |-> 90, white |-> 95, gray |-> 90, navy |-> 70, brown |-> 90, beige |-> 95, cream |-> 95, green |-> 75, blue |-> 80, red |-> 70, pink |-> 70, purple |-> 70, orange |-> 65, multi |-> 60],
      brown |-> [black |-> 80, white |-> 85, gray |-> 75, navy |-> 90, brown |-> 70, beige |-> 95, cream |-> 95, green |-> 85, blue |-> 75, red |-> 65, pink |-> 60, purple |-> 60, orange |-> 80, multi |-> 60],
      beige |-> [black |-> 90, white |-> 90, gray |-> 85, navy |-> 95, brown |-> 95, beige |-> 70, cream |-> 80, green |-> 85, blue |-> 85, red |-> 70, pink |-> 75, purple |-> 70, orange |-> 80, multi |-> 65],
      cream |-> [black |-> 95, white |-> 85, gray |-> 90, navy |-> 95, brown |-> 95, beige |-> 80, cream |-> 65, green |-> 85, blue |-> 85, red |-> 75, pink |-> 80, purple |-> 75, orange |-> 80, multi |-> 65],
      green |-> [black |-> 80, white |-> 85, gray |-> 80, navy |-> 75, brown |-> 85, beige |-> 85, cream |-> 85, green |-> 60, blue |-> 70, red |-> 50, pink |-> 55, purple |-> 60, orange |-> 60, multi |-> 55],
      blue |-> [black |-> 85, white |-> 90, gray |-> 85, navy |-> 80, brown |-> 75, beige |-> 85, cream |-> 85, green |-> 70, blue |-> 60, red |-> 60, pink |-> 65, purple |-> 70, orange |-> 55, multi |-> 55],
      red |-> [black |-> 75, white |-> 85, gray |-> 70, navy |-> 70, brown |-> 65, beige |-> 70, cream |-> 75, green |-> 50, blue |-> 60, red |-> 50, pink |-> 65, purple |-> 60, orange |-> 50, multi |-> 50],
      pink |-> [black |-> 70, white |-> 80, gray |-> 75, navy |-> 70, brown |-> 60, beige |-> 75, cream |-> 80, green |-> 55, blue |-> 65, red |-> 65, pink |-> 50, purple |-> 70, orange |-> 50, multi |-> 50],
      purple |-> [black |-> 70, white |-> 80, gray |-> 75, navy |-> 70, brown |-> 60, beige |-> 70, cream |-> 75, green |-> 60, blue |-> 70, red |-> 60, pink |-> 70, purple |-> 50, orange |-> 50, multi |-> 50],
      orange |-> [black |-> 70, white |-> 85, gray |-> 70, navy |-> 65, brown |-> 80, beige |-> 80, cream |-> 80, green |-> 60, blue |-> 55, red |-> 50, pink |-> 50, purple |-> 50, orange |-> 50, multi |-> 55],
      multi |-> [black |-> 60, white |-> 70, gray |-> 60, navy |-> 60, brown |-> 60, beige |-> 65, cream |-> 65, green |-> 55, blue |-> 55, red |-> 50, pink |-> 50, purple |-> 50, orange |-> 55, multi |-> 40] ]

STYLE_COMPATIBILITY ==
    [ streetwear |-> [streetwear |-> 100, casual |-> 85, athletic |-> 80, formal |-> 30, luxury |-> 70, minimalist |-> 75],
      casual |-> [streetwear |-> 85, casual |-> 100, athletic |-> 75, formal |-> 50, luxury |-> 70, minimalist |-> 90],
      athletic |-> [streetwear |-> 80, casual |-> 75, athletic |-> 100, formal |-> 20, luxury |-> 50, minimalist |-> 70],
      formal |-> [streetwear |-> 30, casual |-> 50, athletic |-> 20, formal |-> 100, luxury |-> 85, minimalist |-> 80],
      luxury |-> [streetwear |-> 70, casual |-> 70, athletic |-> 50, formal |-> 85, luxury |-> 100, minimalist |-> 85],
      minimalist |-> [streetwear |-> 75, casual |-> 90, athletic |-> 70, formal |-> 80, luxury |-> 85, minimalist |-> 100] ]

\* BRAND_TIERS[key]; 0 stands for undefined (no such key)
BRAND_TIERS(key) ==
    CASE key = "jacquemus" -> 5
      [] key = "omega" -> 5
      [] key = "swatch x omega" -> 5
      [] key = "amiri" -> 5
      [] key = "balmain" -> 5
      [] key = "gucci" -> 5
      [] key = "fear of god" -> 4
      [] key = "kenzo" -> 4
      [] key = "polo ralph lauren" -> 4
      [] key = "yeezy" -> 4
      [] key = "ami paris" -> 4
      [] key = "karl lagerfeld" -> 4
      [] key = "all saints" -> 4
      [] key = "nike" -> 3
      [] key = "adidas" -> 3
      [] key = "new balance" -> 3
      [] key = "on" -> 3
      [] key = "jordan" -> 3
      [] key = "air jordan" -> 3
      [] key = "supreme" -> 3
      [] key = "dickies" -> 2
      [] key = "casio" -> 2
      [] key = "stanley" -> 2
      [] key = "hashway" -> 2
      [] key = "myugen" -> 2
      [] key = "blacklist co" -> 2
      [] key = "young grandpa" -> 2
      [] key = "forfksake" -> 2
      [] key = "denim co" -> 2
      [] key = "basics" -> 2
      [] key = "streetwear" -> 2
      [] key = "nofomo" -> 1
      [] key = "anti matter" -> 1
      [] key = "saucy club" -> 1
      [] key = "bearcare" -> 1
      [] OTHER -> 0

\* ------------------------------------------------------------- rationals
RECURSIVE GCD(_, _)
GCD(a, b) ==
    IF b = 0 THEN a ELSE GCD(b, a % b)

Abs(x) ==
    IF x < 0 THEN -x ELSE x

Max(a, b) ==
    IF a >= b THEN a ELSE b

Min(a, b) ==
    IF a <= b THEN a ELSE b

\* 0/0, the value of a division of zero by zero
NaN ==
    [n |-> 0, d |-> 0]

Rat(n, d) ==
    IF d = 0 THEN NaN
    ELSE LET g == GCD(Abs(n), d) IN [n |-> n \div g, d |-> d \div g]

RatAdd(a, b) ==
    IF a.d = 0 \/ b.d = 0 THEN NaN
    ELSE LET l == (a.d \div GCD(a.d, b.d)) * b.d
         IN  Rat(a.n * (l \div a.d) + b.n * (l \div b.d), l)

\* the product (wn/wd) * a
RatScale(wn, wd, a) ==
    IF a.d = 0 THEN NaN
    ELSE LET g == GCD(Abs(a.n), wd)
             h == GCD(wn, a.d)
         IN  Rat((wn \div h) * (a.n \div g), (wd \div g) * (a.d \div h))

\* a < b; every comparison with NaN is false
RatLess(a, b) ==
    /\ a.d # 0
    /\ b.d # 0
    /\ a.n * b.d < b.n * a.d

RatInUnit(a) ==
    /\ a.d > 0
    /\ 0 <= a.n
    /\ a.n <= a.d

\* ------------------------------------------------------- matrix lookups
\* item.color_family || 'black'
ColorOf(item) ==
    IF item.color_family = Absent THEN "black" ELSE item.color_family

\* item.style || 'casual'
StyleOf(item) ==
    IF item.style = Absent THEN "casual" ELSE item.style

\* the lookup with the fallback taken on every pair
ColorScoreFallback(c1, c2) ==
    50

\* the lookup reading the row of c1 at c1 instead of c2
ColorScoreOwnColumn(c1, c2) ==
    IF c1 \in DOMAIN COLOR_HARMONY /\ c1 \in DOMAIN COLOR_HARMONY[c1]
    THEN COLOR_HARMONY[c1][c1]
    ELSE 50

\* COLOR_HARMONY[c1]?.[c2] ?? 0.5
ColorScore(c1, c2) ==
    IF c1 \in DOMAIN COLOR_HARMONY /\ c2 \in DOMAIN COLOR_HARMONY[c1]
    THEN COLOR_HARMONY[c1][c2]
    ELSE 50

\* STYLE_COMPATIBILITY[s1]?.[s2] ?? 0.5
StyleScore(s1, s2) ==
    IF s1 \in DOMAIN STYLE_COMPATIBILITY /\ s2 \in DOMAIN STYLE_COMPATIBILITY[s1]
    THEN STYLE_COMPATIBILITY[s1][s2]
    ELSE 50

\* String.prototype.toLowerCase on one character
LowerChar(c) ==
    CASE c = "A" -> "a" [] c = "B" -> "b" [] c = "C" -> "c" [] c = "D" -> "d"
      [] c = "E" -> "e" [] c = "F" -> "f" [] c = "G" -> "g" [] c = "H" -> "h"
      [] c = "I" -> "i" [] c = "J" -> "j" [] c = "K" -> "k" [] c = "L" -> "l"
      [] c = "M" -> "m" [] c = "N" -> "n" [] c = "O" -> "o" [] c = "P" -> "p"
      [] c = "Q" -> "q" [] c = "R" -> "r" [] c = "S" -> "s" [] c = "T" -> "t"
      [] c = "U" -> "u" [] c = "V" -> "v" [] c = "W" -> "w" [] c = "X" -> "x"
      [] c = "Y" -> "y" [] c = "Z" -> "z" [] OTHER -> c

\* a brand name is a sequence of characters; the lower-cased name is a string
RECURSIVE toLowerCase(_)
toLowerCase(s) ==
    IF s = <<>> THEN "" ELSE LowerChar(Head(s)) \o toLowerCase(Tail(s))

\* BRAND_TIERS is a plain object: a key it does not own is looked up in
\* Object.prototype.  The inherited members a lower-cased key can name, by
\* the type of their value ("undefined": no such member).
ObjectPrototype(key) ==
    CASE key = "constructor" -> "function"
      [] key = "__proto__" -> "object"
      [] OTHER -> "undefined"

\* BRAND_TIERS[brand.toLowerCase()] || 2, as a typed value: the number, or
\* the inherited function or object (truthy, so || 2 does not replace it)
BrandTier(brand) ==
    LET key == toLowerCase(brand)
    IN  IF BRAND_TIERS(key) # 0
        THEN [type |-> "number", value |-> BRAND_TIERS(key)]
        ELSE IF ObjectPrototype(key) # "undefined"
             THEN [type |-> ObjectPrototype(key), value |-> 0]
             ELSE [type |-> "number", value |-> 2]

\* the brand names the catalogs use, in mixed case, some absent from BRAND_TIERS
BrandCycle ==
    << <<"N","i","k","e">>,
       <<"G","U","C","C","I">>,
       <<"n","o","f","o","m","o">>,
       <<"A","c","m","e">>,
       <<"F","e","a","r"," ","o","f"," ","G","o","d">> >>

\* BrandTier of every brand name the catalogs use (all numbers), computed once
BrandTierOf ==
    [b \in {BrandCycle[k] : k \in 1..Len(BrandCycle)} |-> BrandTier(b).value]

\* ------------------------------------------------------ scoring functions
RECURSIVE SumSeq(_)
SumSeq(s) ==
    IF s = <<>> THEN 0 ELSE s[1] + SumSeq(Tail(s))

\* the inner loop started at j = i: every item is also paired with itself
PairTotalFromSelf(items, pairScore) ==
    SumSeq([k \in 1..Len(items) |->
              SumSeq([m \in 1..(Len(items) - k + 1) |-> pairScore[k, k + m - 1]])])

\* the nested loops "for i, for j = i + 1" adding pairScore[i, j]
PairTotal(items, pairScore) ==
    SumSeq([k \in 1..Len(items) |->
              SumSeq([m \in 1..(Len(items) - k) |-> pairScore[k, k + m]])])

PairCount(items) ==
    SumSeq([k \in 1..Len(items) |-> Len(items) - k])

\* calculateColorHarmony returning totalScore without averaging it
calculateColorHarmonyTotal(items) ==
    LET pairScore == [i \in 1..Len(items), j \in 1..Len(items) |->
                        ColorScore(ColorOf(items[i]), ColorOf(items[j]))]
    IN  Rat(PairTotal(items, pairScore), 100)

calculateColorHarmony(items) ==
    LET pairScore == [i \in 1..Len(items), j \in 1..Len(items) |->
                        ColorScore(ColorOf(items[i]), ColorOf(items[j]))]
        totalScore == PairTotal(items, pairScore)
        comparisons == PairCount(items)
    IN  IF comparisons > 0 THEN Rat(totalScore, 100 * comparisons) ELSE Rat(1, 2)

calculateStyleMatch(items) ==
    LET pairScore == [i \in 1..Len(items), j \in 1..Len(items) |->
                        StyleScore(StyleOf(items[i]), StyleOf(items[j]))]
        totalScore == PairTotal(items, pairScore)
        comparisons == PairCount(items)
    IN  IF comparisons > 0 THEN Rat(totalScore, 100 * comparisons) ELSE Rat(1, 2)

\* variance = sum((tier - avg)^2) / n = (n * sum(tier^2) - sum(tier)^2) / n^2
calculateBrandCohesion(items) ==
    LET tiers == [k \in 1..Len(items) |-> BrandTierOf[items[k].brand_name]]
        n == Len(tiers)
        s == SumSeq(tiers)
        q == SumSeq([k \in 1..n |-> tiers[k] * tiers[k]])
        varN == n * q - s * s
        varD == n * n
    IN  IF n = 0 THEN NaN
        ELSE Rat(Max(0, 4 * varD - varN), 4 * varD)

\* variance = sum(((p - avg) / avg)^2) / m = sum((m * p - S)^2) / (S^2 * m)
calculatePriceBalance(items) ==
    LET all == [k \in 1..Len(items) |-> items[k].lowest_price]
        prices == SelectSeq(all, LAMBDA p : p > 0)
        m == Len(prices)
        S == SumSeq(prices)
        varN == SumSeq([k \in 1..m |-> (m * prices[k] - S) * (m * prices[k] - S)])
        varD == S * S * m
    IN  IF m = 0 THEN Rat(1, 2)
        ELSE Rat(Max(0, varD - varN), varD)

\* calculateSeasonFit counting only the items tagged with the target season
calculateSeasonFitExact(items, targetSeason) ==
    IF targetSeason = Absent \/ targetSeason = "all" THEN Rat(1, 1)
    ELSE LET seasonMatches ==
                 Len(SelectSeq(items, LAMBDA item : item.season = targetSeason))
         IN  Rat(seasonMatches, Len(items))

calculateSeasonFit(items, targetSeason) ==
    IF targetSeason = Absent \/ targetSeason = "all" THEN Rat(1, 1)
    ELSE LET seasonMatches ==
                 Len(SelectSeq(items,
                       LAMBDA item : item.season = "all" \/ item.season = targetSeason))
         IN  Rat(seasonMatches, Len(items))

\* Math.round(x * 100) / 100, as a number of hundredths over 100
Round2(x) ==
    IF x.d = 0 THEN NaN
    ELSE [n |-> (2 * 100 * x.n + x.d) \div (2 * x.d), d |-> 100]

\* ------------------------------------------------------ generateReasoning
generateReasoning(breakdown, items, totalPrice) ==
    LET ge(x, pn, pd) == x.d # 0 /\ ~RatLess(x, Rat(pn, pd))
        colors == [k \in 1..Len(items) |-> items[k].color_family]
        color == IF ge(breakdown.color_harmony, 85, 100)
                 THEN <<"Excellent color harmony">>
                 ELSE IF ge(breakdown.color_harmony, 7, 10)
                      THEN <<"Well-balanced color coordination throughout">>
                      ELSE <<>>
        style == IF ge(breakdown.style_match, 85, 100)
                 THEN <<"Strong aesthetic unity">>
                 ELSE IF ge(breakdown.style_match, 7, 10)
                      THEN <<"Versatile style mix that transitions well">>
                      ELSE <<>>
        brand == IF ge(breakdown.brand_cohesion, 8, 10)
                 THEN <<"Matched brand positioning for a polished look">>
                 ELSE <<>>
        price == IF ge(breakdown.price_balance, 8, 10)
                 THEN <<"Balanced investment across all pieces">>
                 ELSE <<>>
        reasons == color \o style \o brand \o price
    IN  IF Len(reasons) > 0 THEN reasons
        ELSE <<"A versatile combination suitable for various occasions.">>

\* ---------------------------------------------------------- selectBestItem
\* the selection score of one candidate, times 30000 * max(1, existingItems.length)
CandidateScore(item, existingItems, preferredStyle) ==
    LET L == Len(existingItems)
        colorSum == SumSeq([k \in 1..L |->
                        ColorScore(ColorOf(item), ColorOf(existingItems[k]))])
        styleSum == SumSeq([k \in 1..L |->
                        StyleScore(StyleOf(item), StyleOf(existingItems[k]))])
        tierSum == SumSeq([k \in 1..L |-> BrandTierOf[existingItems[k].brand_name]])
        itemTier == BrandTierOf[item.brand_name]
        bestseller == IF "bestseller" \in item.tags THEN 1 ELSE 0
    IN  IF L > 0
        THEN 120 * colorSum
             + 105 * styleSum
             + 1500 * Max(0, 3 * L - Abs(tierSum - L * itemTier))
             + 3000 * L * bestseller
        ELSE 12000
             + (IF preferredStyle # Absent
                THEN 105 * StyleScore(StyleOf(item), preferredStyle)
                ELSE 10500)
             + 4500
             + 3000 * bestseller

\* scoredItems.sort((a, b) => b.score - a.score): stable, descending
RECURSIVE InsertByScore(_, _)
InsertByScore(sorted, x) ==
    IF sorted = <<>> THEN <<x>>
    ELSE IF Head(sorted).score >= x.score
         THEN <<Head(sorted)>> \o InsertByScore(Tail(sorted), x)
         ELSE <<x>> \o sorted

RECURSIVE SortByScore(_)
SortByScore(s) ==
    IF s = <<>> THEN <<>>
    ELSE InsertByScore(SortByScore(SubSeq(s, 1, Len(s) - 1)), s[Len(s)])

ScoredItems(candidates, existingItems, preferredStyle) ==
    [k \in 1..Len(candidates) |->
        [item |-> candidates[k],
         score |-> CandidateScore(candidates[k], existingItems, preferredStyle)]]

\* the slice taken of the scored items without sorting them
TopItemsUnsorted(candidates, existingItems, preferredStyle) ==
    LET scoredItems == ScoredItems(candidates, existingItems, preferredStyle)
    IN  SubSeq(scoredItems, 1, Min(TopSliceSize, Len(scoredItems)))

TopItems(candidates, existingItems, preferredStyle) ==
    LET sorted == SortByScore(ScoredItems(candidates, existingItems, preferredStyle))
    IN  SubSeq(sorted, 1, Min(TopSliceSize, Len(sorted)))

\* the values Math.floor(Math.random() * topItems.length) can take
RandomIndices(candidates) ==
    0..(Min(TopSliceSize, Len(candidates)) - 1)

selectBestItem(candidates, existingItems, preferredStyle, randomIndex) ==
    IF Len(candidates) = 0 THEN NULL
    ELSE TopItems(candidates, existingItems, preferredStyle)[randomIndex + 1].item

\* a call that sorts the candidates themselves
SelectBestItemEffectInPlace(candidates, existingItems, preferredStyle, randomIndex) ==
    LET sorted == SortByScore(ScoredItems(candidates, existingItems, preferredStyle))
    IN  [result        |-> selectBestItem(candidates, existingItems, preferredStyle,
                                          randomIndex),
         candidates    |-> [k \in 1..Len(sorted) |-> sorted[k].item],
         existingItems |-> existingItems]

\* one call with its arguments as the caller finds them afterwards:
\* candidates.map builds scoredItems, sort and slice work on scoredItems
\* and its copy, and neither argument is written
SelectBestItemEffect(candidates, existingItems, preferredStyle, randomIndex) ==
    [result        |-> selectBestItem(candidates, existingItems, preferredStyle,
                                      randomIndex),
     candidates    |-> candidates,
     existingItems |-> existingItems]

\* a pick at random among all the candidates
SelectResultsAny(candidates, existingItems, preferredStyle) ==
    IF Len(candidates) = 0 THEN {NULL}
    ELSE {candidates[k] : k \in 1..Len(candidates)}

\* every value one call can return, over the random pick
SelectResults(candidates, existingItems, preferredStyle) ==
    IF Len(candidates) = 0 THEN {NULL}
    ELSE {selectBestItem(candidates, existingItems, preferredStyle, r) :
             r \in RandomIndices(candidates)}

\* array.includes(x)
Includes(s, x) ==
    \E k \in 1..Len(s) : s[k] = x

\* the pool handed on with the chosen items still in it
WithoutNone(pool, chosen) ==
    pool

\* pool.filter(p => !chosen.includes(p))
Without(pool, chosen) ==
    SelectSeq(pool, LAMBDA p : ~Includes(chosen, p))

\* ------------------------------------------------ catalog (data/products)
CategoryNames ==
    <<"tops", "bottoms", "footwear", "accessories">>

SkuPrefix ==
    <<"TOP_00", "BOTTOM_00", "SHOE_00", "ACC_00">>

ColorCycle ==
    <<"white", "navy", "black", "red", "multi", "beige", Absent>>

StyleCycle ==
    <<"casual", "formal", "streetwear", "athletic", Absent>>

SeasonCycle ==
    <<"all", "summer", "winter">>

\* lowest_price 0 is a sold-out product
PriceCycle ==
    <<1000, 1500, 2000, 500, 0, 800>>

Cyc(cycle, j) ==
    cycle[((j - 1) % Len(cycle)) + 1]

SkuId(catNo, i) ==
    SkuPrefix[catNo] \o ToString(i)

\* the i-th product of a category
ProductAt(catNo, i) ==
    LET j == 4 * (i - 1) + catNo
    IN  [sku_id       |-> SkuId(catNo, i),
         category     |-> CategoryNames[catNo],
         lowest_price |-> Cyc(PriceCycle, j),
         color_family |-> Cyc(ColorCycle, j),
         style        |-> Cyc(StyleCycle, j),
         brand_name   |-> Cyc(BrandCycle, j),
         season       |-> Cyc(SeasonCycle, j),
         tags         |-> IF j % 3 = 0 THEN {"bestseller"} ELSE {}]

Catalog(counts) ==
    [i \in 1..counts[1] |-> ProductAt(1, i)]
      \o [i \in 1..counts[2] |-> ProductAt(2, i)]
      \o [i \in 1..counts[3] |-> ProductAt(3, i)]
      \o [i \in 1..counts[4] |-> ProductAt(4, i)]

SkuIds(catalog) ==
    {catalog[k].sku_id : k \in 1..Len(catalog)}

\* getProductsByCategory(category)
getProductsByCategory(catalog, category) ==
    SelectSeq(catalog, LAMBDA p : p.category = category)

\* getProductById(id): the product, or NULL when no product has that id
getProductById(catalog, id) ==
    LET hits == SelectSeq(catalog, LAMBDA p : p.sku_id = id)
    IN  IF hits = <<>> THEN NULL ELSE hits[1]

\* products.filter(p => p.lowest_price > 0)
Priced(pool) ==
    SelectSeq(pool, LAMBDA p : p.lowest_price > 0)

\* getBaseProductOptions without its price filter
getBaseProductOptionsAll(catalog) ==
    catalog

getBaseProductOptions(catalog) ==
    Priced(catalog)

\* ------------------------------------------------------------------ state
VARIABLES
    products,          \* the static catalog
    request,           \* the RecommendationRequest of the call
    pc,                \* "idle", "loop" (inside the for loop) or "done"
    baseProduct,
    allTops,
    allBottoms,
    allFootwear,
    allAccessories,
    baseCategory,
    numOutfits,
    attempt,
    outfits,
    usedCombinations,
    lastAttempt,       \* top, bottom and shoe at the end of the last iteration
    selectorCalled,    \* selectBestItem was called during this request
    response,
    baseOptions,       \* the value returned by getBaseProductOptions
    scored,            \* the last direct call of a matrix lookup or scorer
    page               \* the state hooks and pending timers of the Index page

vars ==
    <<products, request, pc, baseProduct, allTops, allBottoms, allFootwear,
      allAccessories, baseCategory, numOutfits, attempt, outfits,
      usedCombinations, lastAttempt, selectorCalled, response, baseOptions,
      scored, page>>

\* {} as Product
EmptyProduct ==
    [placeholder |-> TRUE]

NoResponse ==
    [pending |-> TRUE]

NoAttempt ==
    [top |-> NULL, bottom |-> NULL, shoe |-> NULL, outcome |-> "none"]

NotCalled ==
    [called |-> FALSE, result |-> <<>>]

NotScored ==
    [fn |-> "none"]

\* useState(null), useState(null), useState(false), useState('all'),
\* useState(1); no timer is pending
PageInitial ==
    [selectedProduct |-> NULL,
     recommendations |-> NULL,
     isLoading       |-> FALSE,
     activeCategory  |-> "all",
     currentPage     |-> 1,
     timers          |-> <<>>]

\* the optional style and season of a request: both absent, or both given
RequestOptions ==
    {[preferred_style |-> Absent, season |-> Absent],
     [preferred_style |-> "formal", season |-> "summer"]}

Requests(catalog) ==
    {[base_product_id |-> id,
      num_outfits     |-> n,
      preferred_style |-> o.preferred_style,
      season          |-> o.season] :
        id \in SkuIds(catalog) \cup {"NOT_REAL"},
        n \in {<<>>} \cup {<<k>> : k \in 0..MaxNumOutfits},
        o \in RequestOptions}

\* how many tops, bottoms, footwear and accessories a catalog holds
Counts ==
    {c \in (0..MaxCatalog) \X (0..MaxCatalog) \X (0..MaxCatalog) \X (0..MaxCatalog) :
        c[1] + c[2] + c[3] + c[4] <= MaxCatalog}

Locals0 ==
    /\ pc = "idle"
    /\ baseProduct = NULL
    /\ allTops = <<>>
    /\ allBottoms = <<>>
    /\ allFootwear = <<>>
    /\ allAccessories = <<>>
    /\ baseCategory = Absent
    /\ numOutfits = 0
    /\ attempt = 0
    /\ outfits = <<>>
    /\ usedCombinations = {}
    /\ lastAttempt = NoAttempt
    /\ selectorCalled = FALSE
    /\ response = NoResponse
    /\ baseOptions = NotCalled
    /\ scored = NotScored
    /\ page = PageInitial

Init ==
    /\ \E counts \in Counts : products = Catalog(counts)
    /\ request \in Requests(products)
    /\ Locals0

\* ------------------------------------------- generateOutfitRecommendations
\* request.num_outfits || 3; an optional number is <<>> (absent) or <<n>>
NumOutfitsOf(req) ==
    IF req.num_outfits = <<>> \/ req.num_outfits[1] = 0
    THEN DefaultNumOutfits
    ELSE req.num_outfits[1]

\* a pool built without its price filter
PoolOfUnfiltered(catalog, category) ==
    getProductsByCategory(catalog, category)

\* getProductsByCategory(category).filter(p => p.lowest_price > 0)
PoolOf(catalog, category) ==
    Priced(getProductsByCategory(catalog, category))

HasSku(pool, id) ==
    \E k \in 1..Len(pool) : pool[k].sku_id = id

\* the base category read from the product instead of looked up in the pools
BaseCategoryOfField(tops, bottoms, footwear, base) ==
    base.category

\* the first of the tops, bottoms and footwear pools holding the base product
BaseCategoryOf(tops, bottoms, footwear, base) ==
    IF HasSku(tops, base.sku_id) THEN "tops"
    ELSE IF HasSku(bottoms, base.sku_id) THEN "bottoms"
    ELSE IF HasSku(footwear, base.sku_id) THEN "footwear"
    ELSE "accessories"

\* `${top.sku_id}-${bottom.sku_id}-${shoe.sku_id}`
CombinationKey(top, bottom, shoe) ==
    top.sku_id \o "-" \o bottom.sku_id \o "-" \o shoe.sku_id

\* the accessory count without its leading 1
NumAccessoriesParity(att) ==
    att % 2

\* 1 + (attempt % 2)
NumAccessories(att) ==
    1 + (att % 2)

\* the accessory lists the loop "for i < numAccessories" can build
RECURSIVE AccessoryRuns(_, _, _, _, _)
AccessoryRuns(i, accessories, selectedItems, pool, preferredStyle) ==
    IF i = 0 THEN {accessories}
    ELSE UNION {AccessoryRuns(i - 1,
                              IF a = NULL THEN accessories ELSE Append(accessories, a),
                              selectedItems, pool, preferredStyle) :
                   a \in SelectResults(Without(pool, accessories),
                                       selectedItems \o accessories,
                                       preferredStyle)}

\* the total over the three mandatory items only
TotalPriceMandatory(allItems) ==
    allItems[1].lowest_price + allItems[2].lowest_price + allItems[3].lowest_price

TotalPrice(allItems) ==
    SumSeq([k \in 1..Len(allItems) |-> allItems[k].lowest_price])

Breakdown(allItems, season) ==
    [color_harmony  |-> calculateColorHarmony(allItems),
     style_match    |-> calculateStyleMatch(allItems),
     brand_cohesion |-> calculateBrandCohesion(allItems),
     price_balance  |-> calculatePriceBalance(allItems),
     season_fit     |-> calculateSeasonFit(allItems, season)]

\* the weighted overall score kept in tempSortScore
MatchScore(breakdown) ==
    RatAdd(RatAdd(RatAdd(RatAdd(RatScale(35, 100, breakdown.color_harmony),
                                RatScale(30, 100, breakdown.style_match)),
                         RatScale(20, 100, breakdown.brand_cohesion)),
                  RatScale(0, 100, breakdown.price_balance)),
           RatScale(15, 100, breakdown.season_fit))

\* the record pushed on outfits with the weighted overall score displayed
MakeOutfitOverall(top, bottom, shoe, accessories, season) ==
    LET allItems == <<top, bottom, shoe>> \o accessories
        totalPrice == TotalPrice(allItems)
        breakdown == Breakdown(allItems, season)
    IN  [top             |-> top,
         bottom          |-> bottom,
         footwear        |-> shoe,
         accessories     |-> accessories,
         match_score     |-> Round2(MatchScore(breakdown)),
         score_breakdown |-> breakdown,
         reasoning       |-> generateReasoning(breakdown, allItems, totalPrice),
         total_price     |-> totalPrice,
         tempSortScore   |-> MatchScore(breakdown)]

\* the record pushed on outfits, tempSortScore included
MakeOutfit(top, bottom, shoe, accessories, season) ==
    LET allItems == <<top, bottom, shoe>> \o accessories
        totalPrice == TotalPrice(allItems)
        breakdown == Breakdown(allItems, season)
    IN  [top             |-> top,
         bottom          |-> bottom,
         footwear        |-> shoe,
         accessories     |-> accessories,
         match_score     |-> Round2(breakdown.style_match),
         score_breakdown |-> breakdown,
         reasoning       |-> generateReasoning(breakdown, allItems, totalPrice),
         total_price     |-> totalPrice,
         tempSortScore   |-> MatchScore(breakdown)]

\* the insertion of a sort that puts the more expensive outfit first
RECURSIVE InsertOutfitByPrice(_, _)
InsertOutfitByPrice(sorted, x) ==
    IF sorted = <<>> THEN <<x>>
    ELSE IF Head(sorted).total_price >= x.total_price
         THEN <<Head(sorted)>> \o InsertOutfitByPrice(Tail(sorted), x)
         ELSE <<x>> \o sorted

\* outfits.sort((a, b) => b.tempSortScore - a.tempSortScore): stable, descending
RECURSIVE InsertOutfit(_, _)
InsertOutfit(sorted, x) ==
    IF sorted = <<>> THEN <<x>>
    ELSE IF ~RatLess(Head(sorted).tempSortScore, x.tempSortScore)
         THEN <<Head(sorted)>> \o InsertOutfit(Tail(sorted), x)
         ELSE <<x>> \o sorted

\* the outfits left in the order they were accepted
SortOutfitsNone(s) ==
    s

RECURSIVE SortOutfits(_)
SortOutfits(s) ==
    IF s = <<>> THEN <<>>
    ELSE InsertOutfit(SortOutfits(SubSeq(s, 1, Len(s) - 1)), s[Len(s)])

\* delete outfit.tempSortScore
DeleteTemp(o) ==
    [top             |-> o.top,
     bottom          |-> o.bottom,
     footwear        |-> o.footwear,
     accessories     |-> o.accessories,
     match_score     |-> o.match_score,
     score_breakdown |-> o.score_breakdown,
     reasoning       |-> o.reasoning,
     total_price     |-> o.total_price]

\* outfits.slice(0, numOutfits)
Slice(s, n) ==
    SubSeq(s, 1, Min(n, Len(s)))

\* the empty response claiming a cache hit
EmptyResponseCached ==
    [outfits      |-> <<>>,
     base_product |-> EmptyProduct,
     cache_hit    |-> TRUE]

\* the response for a base_product_id that does not resolve
EmptyResponse ==
    [outfits      |-> <<>>,
     base_product |-> EmptyProduct,
     cache_hit    |-> FALSE]

\* entry of the call: resolve the base product, build the pools
Generate ==
    /\ pc = "idle"
    /\ LET found == getProductById(products, request.base_product_id)
       IN  IF found = NULL
           THEN /\ response' = EmptyResponse
                /\ pc' = "done"
                /\ UNCHANGED <<baseProduct, allTops, allBottoms, allFootwear,
                               allAccessories, baseCategory, numOutfits>>
           ELSE /\ baseProduct' = found
                /\ allTops' = PoolOf(products, "tops")
                /\ allBottoms' = PoolOf(products, "bottoms")
                /\ allFootwear' = PoolOf(products, "footwear")
                /\ allAccessories' = PoolOf(products, "accessories")
                /\ baseCategory' = BaseCategoryOf(allTops', allBottoms', allFootwear', found)
                /\ numOutfits' = NumOutfitsOf(request)
                /\ pc' = "loop"
                /\ UNCHANGED response
    /\ UNCHANGED <<products, request, attempt, outfits, usedCombinations,
                   lastAttempt, selectorCalled, baseOptions, scored, page>>

\* the loop bounded by numOutfits attempts instead of numOutfits * 5
LoopConditionNoFactor ==
    /\ attempt < numOutfits
    /\ Len(outfits) < numOutfits

\* the loop without its bound on the attempts
LoopConditionUnbounded ==
    Len(outfits) < numOutfits

\* attempt < numOutfits * 5 && outfits.length < numOutfits
LoopCondition ==
    /\ attempt < numOutfits * AttemptFactor
    /\ Len(outfits) < numOutfits

\* !top || !bottom || !shoe
Incomplete(top, bottom, shoe) ==
    top = NULL \/ bottom = NULL \/ shoe = NULL

\* a duplicate check that never finds the key
HasCombinationNever(used, key) ==
    FALSE

\* usedCombinations.has(combinationKey)
HasCombination(used, key) ==
    key \in used

\* the end of one iteration with the three mandatory slots decided
FinishAttempt(top, bottom, shoe, selectedItems) ==
    IF Incomplete(top, bottom, shoe)
    THEN /\ lastAttempt' = [top |-> top, bottom |-> bottom, shoe |-> shoe,
                            outcome |-> "incomplete"]
         /\ UNCHANGED <<outfits, usedCombinations>>
    ELSE IF HasCombination(usedCombinations, CombinationKey(top, bottom, shoe))
    THEN /\ lastAttempt' = [top |-> top, bottom |-> bottom, shoe |-> shoe,
                            outcome |-> "duplicate"]
         /\ UNCHANGED <<outfits, usedCombinations>>
    ELSE /\ lastAttempt' = [top |-> top, bottom |-> bottom, shoe |-> shoe,
                            outcome |-> "accepted"]
         /\ usedCombinations' = usedCombinations \cup {CombinationKey(top, bottom, shoe)}
         /\ \E accessories \in AccessoryRuns(NumAccessories(attempt), <<>>, selectedItems,
                                             allAccessories, request.preferred_style) :
               outfits' = Append(outfits,
                                 MakeOutfit(top, bottom, shoe, accessories, request.season))

Push(s, x) ==
    IF x = NULL THEN s ELSE Append(s, x)

\* one iteration of the for loop
Attempt ==
    /\ pc = "loop"
    /\ LoopCondition
    /\ LET style == request.preferred_style
           sel0 == IF baseCategory \in {"tops", "bottoms", "footwear"}
                   THEN <<baseProduct>> ELSE <<>>
           tops == IF baseCategory = "tops" THEN {baseProduct}
                   ELSE SelectResults(Without(allTops, sel0), sel0, style)
       IN  \E top \in tops :
             LET sel1 == IF baseCategory = "tops" THEN sel0 ELSE Push(sel0, top)
                 bottoms == IF baseCategory = "bottoms" THEN {baseProduct}
                            ELSE SelectResults(Without(allBottoms, sel1), sel1, style)
             IN  \E bottom \in bottoms :
                   LET sel2 == IF baseCategory = "bottoms" THEN sel1 ELSE Push(sel1, bottom)
                       shoes == IF baseCategory = "footwear" THEN {baseProduct}
                                ELSE SelectResults(Without(allFootwear, sel2), sel2, style)
                   IN  \E shoe \in shoes :
                         LET sel3 == IF baseCategory = "footwear" THEN sel2
                                     ELSE Push(sel2, shoe)
                         IN  FinishAttempt(top, bottom, shoe, sel3)
    /\ attempt' = attempt + 1
    /\ selectorCalled' = TRUE
    /\ UNCHANGED <<products, request, pc, baseProduct, allTops, allBottoms,
                   allFootwear, allAccessories, baseCategory, numOutfits,
                   response, baseOptions, scored, page>>

\* after the loop: sort, drop the temporary field, slice, return
Return ==
    /\ pc = "loop"
    /\ ~LoopCondition
    /\ outfits' = [k \in 1..Len(outfits) |-> DeleteTemp(SortOutfits(outfits)[k])]
    /\ response' = [outfits      |-> Slice(outfits', numOutfits),
                    base_product |-> baseProduct,
                    cache_hit    |-> FALSE]
    /\ pc' = "done"
    /\ UNCHANGED <<products, request, baseProduct, allTops, allBottoms, allFootwear,
                   allAccessories, baseCategory, numOutfits, attempt,
                   usedCombinations, lastAttempt, selectorCalled, baseOptions, scored, page>>

\* a call of getBaseProductOptions
GetBaseProductOptions ==
    /\ pc = "idle"
    /\ ~baseOptions.called
    /\ baseOptions' = [called |-> TRUE, result |-> getBaseProductOptions(products)]
    /\ UNCHANGED <<products, request, pc, baseProduct, allTops, allBottoms,
                   allFootwear, allAccessories, baseCategory, numOutfits, attempt,
                   outfits, usedCombinations, lastAttempt, selectorCalled, response,
                   scored, page>>

Next ==
    \/ Generate
    \/ Attempt
    \/ Return

Spec ==
    Init /\ [][Next]_vars

\* the for loop's step: while its condition holds, the body runs and
\* attempt++ follows
LoopIteration ==
    /\ pc = "loop"
    /\ LoopCondition
    /\ attempt' = attempt + 1

\* the call is synchronous code: once entered it runs on until it returns
SpecFair ==
    Spec /\ WF_vars(Generate) /\ WF_attempt(LoopIteration) /\ WF_vars(Return)

\* the calls of getBaseProductOptions alone, over every catalog
NextOptions ==
    GetBaseProductOptions

SpecOptions ==
    Init /\ [][NextOptions]_vars

\* ------------------------------- the lookups and scorers called directly
\* ColorFamily and StyleType: the keys the typed matrices must have
ColorFamilies ==
    {"black", "white", "gray", "navy", "brown", "beige", "cream", "green",
     "blue", "red", "pink", "purple", "orange", "multi"}

StyleTypes ==
    {"streetwear", "casual", "athletic", "formal", "luxury", "minimalist"}

\* the enum values and one string outside the enum
ColorInputs ==
    ColorFamilies \cup {"teal"}

StyleInputs ==
    StyleTypes \cup {"vintage"}

\* brand strings: keys of BRAND_TIERS in several letter cases, brands the
\* map does not hold, the empty string
BrandInputs ==
    { <<"n","i","k","e">>, <<"N","i","k","e">>, <<"N","I","K","E">>,
      <<"g","u","c","c","i">>, <<"G","U","C","C","I">>, <<"G","u","c","c","i">>,
      <<"n","o","f","o","m","o">>, <<"N","o","F","o","m","o">>,
      <<"f","e","a","r"," ","o","f"," ","g","o","d">>,
      <<"F","e","a","r"," ","o","f"," ","G","o","d">>,
      <<"d","i","c","k","i","e","s">>, <<"D","I","C","K","I","E","S">>,
      <<"A","c","m","e">>, <<"a","c","m","e">>, <<"A","C","M","E">>,
      <<"c","o","n","s","t","r","u","c","t","o","r">>,
      <<"C","o","n","s","t","r","u","c","t","o","r">>,
      <<"z","a","r","a">>, <<>> }

SeasonInputs ==
    {Absent, "all", "summer", "winter", "spring"}

\* the non-empty item lists of at most MaxItems items, by their season
SeasonItems ==
    UNION {[1..n -> {[season |-> s] : s \in {"all", "summer", "winter"}}] :
              n \in 1..MaxItems}

EngineVars ==
    <<products, request, pc, baseProduct, allTops, allBottoms, allFootwear,
      allAccessories, baseCategory, numOutfits, attempt, outfits,
      usedCombinations, lastAttempt, selectorCalled, response, baseOptions>>

\* COLOR_HARMONY[color1]?.[color2] ?? 0.5
ColorHarmonyLookup ==
    /\ pc = "idle"
    /\ \E c1 \in ColorInputs, c2 \in ColorInputs :
          scored' = [fn |-> "color", a |-> c1, b |-> c2,
                     result |-> ColorScore(c1, c2)]
    /\ UNCHANGED <<EngineVars, page>>

\* STYLE_COMPATIBILITY[style1]?.[style2] ?? 0.5
StyleCompatibilityLookup ==
    /\ pc = "idle"
    /\ \E s1 \in StyleInputs, s2 \in StyleInputs :
          scored' = [fn |-> "style", a |-> s1, b |-> s2,
                     result |-> StyleScore(s1, s2)]
    /\ UNCHANGED <<EngineVars, page>>

\* BRAND_TIERS[brand_name.toLowerCase()] || 2
BrandTierLookup ==
    /\ pc = "idle"
    /\ \E brand \in BrandInputs :
          scored' = [fn |-> "brand", a |-> brand, b |-> Absent,
                     result |-> BrandTier(brand)]
    /\ UNCHANGED <<EngineVars, page>>

\* calculateSeasonFit(items, targetSeason)
CalculateSeasonFit ==
    /\ pc = "idle"
    /\ \E items \in SeasonItems, targetSeason \in SeasonInputs :
          scored' = [fn |-> "season", a |-> items, b |-> targetSeason,
                     result |-> calculateSeasonFit(items, targetSeason)]
    /\ UNCHANGED <<EngineVars, page>>

InitScorers ==
    /\ products = <<>>
    /\ request = [base_product_id |-> "NOT_REAL", num_outfits |-> <<>>,
                  preferred_style |-> Absent, season |-> Absent]
    /\ Locals0

NextScorers ==
    \/ ColorHarmonyLookup
    \/ StyleCompatibilityLookup
    \/ BrandTierLookup
    \/ CalculateSeasonFit

SpecScorers ==
    InitScorers /\ [][NextScorers]_vars

\* ------------------------------------------------- the scenario catalog
\* TOP_001 (white, casual, 1000), BOTTOM_001 (navy, casual, 1500), SHOE_001
\* (white, casual, 2000) and ACC_001 (500, bestseller); the attributes the
\* scenario leaves open (brands, seasons, the accessory's color and style) vary
ScenarioCatalogs ==
    { << [sku_id |-> "TOP_001", category |-> "tops", lowest_price |-> 1000,
          color_family |-> "white", style |-> "casual",
          brand_name |-> Cyc(BrandCycle, b), season |-> Cyc(SeasonCycle, b),
          tags |-> {}],
         [sku_id |-> "BOTTOM_001", category |-> "bottoms", lowest_price |-> 1500,
          color_family |-> "navy", style |-> "casual",
          brand_name |-> Cyc(BrandCycle, b + 1), season |-> Cyc(SeasonCycle, b + 1),
          tags |-> {}],
         [sku_id |-> "SHOE_001", category |-> "footwear", lowest_price |-> 2000,
          color_family |-> "white", style |-> "casual",
          brand_name |-> Cyc(BrandCycle, b + 2), season |-> Cyc(SeasonCycle, b + 2),
          tags |-> {}],
         [sku_id |-> "ACC_001", category |-> "accessories", lowest_price |-> 500,
          color_family |-> ColorCycle[c], style |-> StyleCycle[s],
          brand_name |-> Cyc(BrandCycle, b + 3), season |-> SeasonCycle[se],
          tags |-> {"bestseller"}] >> :
        b \in 1..Len(BrandCycle), c \in 1..Len(ColorCycle),
        s \in 1..Len(StyleCycle), se \in 1..Len(SeasonCycle) }

\* {base_product_id: "TOP_001", num_outfits: 1}
ScenarioRequest ==
    [base_product_id |-> "TOP_001",
     num_outfits     |-> <<1>>,
     preferred_style |-> Absent,
     season          |-> Absent]

InitScenario ==
    /\ products \in ScenarioCatalogs
    /\ request = ScenarioRequest
    /\ Locals0

SpecScenario ==
    InitScenario /\ [][Next]_vars

\* --------------------------------------------------- the Index page (UI)
Range(seq) ==
    {seq[k] : k \in 1..Len(seq)}

\* ['all', ...Array.from(new Set(baseProducts.map(p => p.category || p.sector)))]
Categories(baseProducts) ==
    {"all"} \cup {baseProducts[k].category : k \in 1..Len(baseProducts)}

\* activeCategory === 'all' ? baseProducts : baseProducts.filter(...)
FilteredProducts(baseProducts, activeCategory) ==
    IF activeCategory = "all"
    THEN baseProducts
    ELSE SelectSeq(baseProducts, LAMBDA p : p.category = activeCategory)

\* Math.ceil(filteredProducts.length / PRODUCTS_PER_PAGE)
TotalPagesOf(filteredProducts) ==
    (Len(filteredProducts) + ProductsPerPage - 1) \div ProductsPerPage

\* filteredProducts.slice(startIndex, endIndex)
CurrentProductsOf(filteredProducts, currentPage) ==
    LET startIndex == (currentPage - 1) * ProductsPerPage
        endIndex   == startIndex + ProductsPerPage
    IN  SelectSeq([k \in 1..Len(filteredProducts) |->
                      [at |-> k, product |-> filteredProducts[k]]],
                  LAMBDA e : e.at > startIndex /\ e.at <= endIndex)

PageBaseProducts ==
    getBaseProductOptions(products)

PageFiltered ==
    FilteredProducts(PageBaseProducts, page.activeCategory)

PageTotalPages ==
    TotalPagesOf(PageFiltered)

\* a category change that keeps the current page
HandleCategoryChangeNoReset ==
    /\ \E category \in Categories(PageBaseProducts) :
          page' = [page EXCEPT !.activeCategory = category]
    /\ UNCHANGED <<EngineVars, scored>>

\* handleCategoryChange(category): a click on one of the category buttons
HandleCategoryChange ==
    /\ \E category \in Categories(PageBaseProducts) :
          page' = [page EXCEPT !.activeCategory = category, !.currentPage = 1]
    /\ UNCHANGED <<EngineVars, scored>>

\* the pages the enabled pagination controls lead to: Previous, Next and
\* the numbered buttons, rendered only when totalPages > 1
PageTargets(currentPage, totalPages) ==
    IF totalPages > 1
    THEN (IF currentPage # 1 THEN {currentPage - 1} ELSE {})
           \cup (IF currentPage # totalPages THEN {currentPage + 1} ELSE {})
           \cup {p \in 1..totalPages :
                    \/ p = 1
                    \/ p = totalPages
                    \/ (p >= currentPage - 1 /\ p <= currentPage + 1)}
    ELSE {}

\* handlePageChange(page)
HandlePageChange ==
    /\ \E target \in PageTargets(page.currentPage, PageTotalPages) :
          page' = [page EXCEPT !.currentPage = target]
    /\ UNCHANGED <<EngineVars, scored>>

\* handleProductSelect(product): a click on a card of the current page
HandleProductSelect ==
    /\ \E e \in Range(CurrentProductsOf(PageFiltered, page.currentPage)) :
          page' = [page EXCEPT !.selectedProduct = e.product,
                               !.recommendations = NULL]
    /\ UNCHANGED <<EngineVars, scored>>

\* handleGenerateOutfits: the button exists once a product is selected and
\* is disabled while isLoading; the timer's closure captures selectedProduct
HandleGenerateOutfits ==
    /\ page.selectedProduct # NULL
    /\ ~page.isLoading
    /\ page' = [page EXCEPT !.isLoading = TRUE,
                            !.timers = Append(@, page.selectedProduct)]
    /\ UNCHANGED <<EngineVars, scored>>

\* the recommendations the page keeps of generateOutfitRecommendations
\* ({base_product_id: captured.sku_id, num_outfits: 3}): its base_product
RecommendationsFor(captured) ==
    [base_product |-> getProductById(products, captured.sku_id)]

\* a callback that leaves isLoading set
TimerCallbackKeepsLoading ==
    /\ page.timers # <<>>
    /\ page' = [page EXCEPT !.recommendations = RecommendationsFor(Head(page.timers)),
                            !.timers = Tail(@)]
    /\ UNCHANGED <<EngineVars, scored>>

\* the setTimeout callback, 150 ms after the click
TimerCallback ==
    /\ page.timers # <<>>
    /\ page' = [page EXCEPT !.recommendations = RecommendationsFor(Head(page.timers)),
                            !.isLoading = FALSE,
                            !.timers = Tail(@)]
    /\ UNCHANGED <<EngineVars, scored>>

\* the catalogs the page is shown with: none, one or MaxPageProducts tops
\* and bottoms
PageCounts ==
    {<<t, b, 0, 0>> : t \in {0, 1, MaxPageProducts}, b \in {0, 1, MaxPageProducts}}

InitPage ==
    /\ \E counts \in PageCounts : products = Catalog(counts)
    /\ request = [base_product_id |-> "NOT_REAL", num_outfits |-> <<>>,
                  preferred_style |-> Absent, season |-> Absent]
    /\ Locals0

NextPage ==
    \/ HandleCategoryChange
    \/ HandlePageChange
    \/ HandleProductSelect
    \/ HandleGenerateOutfits
    \/ TimerCallback

SpecPage ==
    InitPage /\ [][NextPage]_vars

\* a timer that was set fires
SpecPageFair ==
    SpecPage /\ WF_vars(TimerCallback)

\* --------------------------------------------- selectBestItem on its own
\* the candidate lists: up to MaxPool different bottoms out of MaxPool + 1,
\* in any order
CandidateLists ==
    LET orders == {f \in UNION {[1..n -> 1..(MaxPool + 1)] : n \in 0..MaxPool} :
                      \A i, j \in DOMAIN f : i # j => f[i] # f[j]}
    IN  {[k \in DOMAIN f |-> ProductAt(2, f[k])] : f \in orders}

\* the already selected items: none, a top, a top and a shoe
ExistingLists ==
    {<<>>, <<ProductAt(1, 1)>>, <<ProductAt(1, 1), ProductAt(3, 1)>>}

\* selectBestItem(candidates, existingItems, preferredStyle), for every
\* value of Math.random
SelectBestItemCall ==
    /\ pc = "idle"
    /\ scored = NotScored
    /\ \E candidates \in CandidateLists, existingItems \in ExistingLists,
          preferredStyle \in {Absent, "formal"},
          randomIndex \in 0..(TopSliceSize - 1) :
          /\ randomIndex \in RandomIndices(candidates) \/ Len(candidates) = 0
          /\ scored' = [fn |-> "select", a |-> candidates, b |-> existingItems,
                        style |-> preferredStyle, randomIndex |-> randomIndex,
                        result |-> SelectBestItemEffect(candidates, existingItems,
                                                        preferredStyle, randomIndex)]
    /\ UNCHANGED <<EngineVars, page>>

NextSelector ==
    SelectBestItemCall

SpecSelector ==
    InitScorers /\ [][NextSelector]_vars

\* ------------------- calculateColorHarmony and calculateStyleMatch alone
\* color_family and style values of the items: enum values, a string
\* outside the enum, and the field left out
HarmonyColors ==
    {"black", "white", "navy", "red", "beige", "multi", "teal", Absent}

HarmonyStyles ==
    {"casual", "formal", "streetwear", "athletic", "vintage", Absent}

\* the item lists of at most MaxItems items, by color and by style
ColorItems ==
    UNION {[1..n -> {[color_family |-> c] : c \in HarmonyColors}] : n \in 0..MaxItems}

StyleItems ==
    UNION {[1..n -> {[style |-> s] : s \in HarmonyStyles}] : n \in 0..MaxItems}

\* calculateColorHarmony(items)
CalculateColorHarmony ==
    /\ pc = "idle"
    /\ scored = NotScored
    /\ \E items \in ColorItems :
          scored' = [fn |-> "colorHarmony", a |-> items, b |-> Absent,
                     result |-> calculateColorHarmony(items)]
    /\ UNCHANGED <<EngineVars, page>>

\* calculateStyleMatch(items)
CalculateStyleMatch ==
    /\ pc = "idle"
    /\ scored = NotScored
    /\ \E items \in StyleItems :
          scored' = [fn |-> "styleMatch", a |-> items, b |-> Absent,
                     result |-> calculateStyleMatch(items)]
    /\ UNCHANGED <<EngineVars, page>>

NextHarmony ==
    \/ CalculateColorHarmony
    \/ CalculateStyleMatch

SpecHarmony ==
    InitScorers /\ [][NextHarmony]_vars

\* ------------------------------------- catalogs with several accessories
\* one top, one or two bottoms, one shoe and up to MaxAccessories accessories
AccessoryCounts ==
    {<<1, b, 1, a>> : b \in 1..2, a \in 0..MaxAccessories}

InitAccessories ==
    /\ \E counts \in AccessoryCounts : products = Catalog(counts)
    /\ request \in Requests(products)
    /\ Locals0

SpecAccessories ==
    InitAccessories /\ [][Next]_vars

\* ------------------------------------------- sku_ids that contain a '-'
\* two tops "A" and "A-B", two bottoms "B-C" and "C", one shoe "S", and
\* one accessory or none: unique ids, all priced
HyphenCatalogs ==
    {<< [ProductAt(1, 1) EXCEPT !.sku_id = "A"],
        [ProductAt(1, 3) EXCEPT !.sku_id = "A-B"],
        [ProductAt(2, 1) EXCEPT !.sku_id = "B-C"],
        [ProductAt(2, 2) EXCEPT !.sku_id = "C"],
        [ProductAt(3, 1) EXCEPT !.sku_id = "S"] >>
       \o [i \in 1..a |-> ProductAt(4, i)] : a \in 0..1}

InitHyphen ==
    /\ products \in HyphenCatalogs
    /\ request \in Requests(products)
    /\ Locals0

SpecHyphen ==
    InitHyphen /\ [][Next]_vars

\* -------------------------------------- catalogs with more than 3 to pick
\* catalogs whose pools hold 4 priced products where a filler slot picks,
\* asked for ManyOutfits outfits; and a catalog with 4 priced products in
\* each mandatory category, asked for one outfit; no style or season asked
FillerCases ==
    {[counts |-> c, num_outfits |-> <<ManyOutfits>>] :
        c \in {<<1, 4, 1, 0>>, <<6, 1, 1, 0>>, <<1, 1, 5, 0>>}}
      \cup {[counts |-> <<6, 4, 5, a>>, num_outfits |-> <<1>>] : a \in 0..1}

InitFillers ==
    /\ \E case \in FillerCases :
          /\ products = Catalog(case.counts)
          /\ \E r \in Requests(products) :
                /\ r.preferred_style = Absent
                /\ request = [r EXCEPT !.num_outfits = case.num_outfits]
    /\ Locals0

SpecFillers ==
    InitFillers /\ [][Next]_vars

\* ================================================================ claims
Resolved ==
    getProductById(products, request.base_product_id) # NULL

\* the outfits of the response once the call has returned
ResponseOutfits ==
    IF pc = "done" THEN response.outfits ELSE <<>>

Triple(o) ==
    <<o.top.sku_id, o.bottom.sku_id, o.footwear.sku_id>>

ItemsOf(o) ==
    <<o.top, o.bottom, o.footwear>> \o o.accessories

\* the bound a request puts on the response: num_outfits, or 3 when absent
RequestedCount ==
    IF request.num_outfits = <<>> THEN 3 ELSE request.num_outfits[1]

\* C1: no two outfits of a response have the same (top, bottom, footwear)
\* sku_id triple.
C1_DistinctTriples ==
    \A i, j \in 1..Len(ResponseOutfits) :
        i # j => Triple(ResponseOutfits[i]) # Triple(ResponseOutfits[j])

\* a response of two outfits built by a call that discarded a duplicate
C1_Witness ==
    /\ pc = "done"
    /\ Len(response.outfits) >= 2
    /\ attempt > Len(outfits)

\* C2: for a resolved base product the response holds at most num_outfits
\* outfits, for every supplied num_outfits >= 0 (0 included), and at most 3
\* when num_outfits is absent.
C2_AtMostRequested ==
    (pc = "done" /\ Resolved) => Len(response.outfits) <= RequestedCount

\* the number of (top, bottom, footwear) triples the pools can form around
\* the base product
PossibleTriples ==
    (IF baseCategory = "tops" THEN 1 ELSE Len(allTops))
      * (IF baseCategory = "bottoms" THEN 1 ELSE Len(allBottoms))
      * (IF baseCategory = "footwear" THEN 1 ELSE Len(allFootwear))

EnoughItems ==
    /\ pc = "done"
    /\ Resolved
    /\ PossibleTriples >= numOutfits

\* C3 as stated: when the pools can form num_outfits distinct triples the
\* response holds exactly num_outfits outfits, whatever the random picks.
C3_ExactlyRequested ==
    EnoughItems => Len(response.outfits) = numOutfits

\* C3 amended: when the pools can form num_outfits distinct triples the
\* response holds at least one outfit, and it holds fewer than num_outfits
\* outfits only after all 5 * num_outfits attempts have been made.
C3_ExactUnlessExhausted ==
    EnoughItems =>
        /\ Len(response.outfits) >= 1
        /\ Len(response.outfits) <= numOutfits
        /\ (Len(response.outfits) < numOutfits => attempt = AttemptFactor * numOutfits)

\* a response short of num_outfits although the pools could form enough triples
C3_Witness ==
    /\ EnoughItems
    /\ Len(response.outfits) < numOutfits
    /\ attempt = AttemptFactor * numOutfits

\* C4: an unresolved base_product_id yields, without entering the loop, a
\* response with no outfits, the placeholder base product and cache_hit false;
\* no selector call is made and no outfit is built.
C4_UnresolvedBase ==
    ~Resolved =>
        /\ pc \in {"idle", "done"}
        /\ ~selectorCalled
        /\ outfits = <<>>
        /\ attempt = 0
        /\ (pc = "done" =>
              /\ response.outfits = <<>>
              /\ response.base_product = [placeholder |-> TRUE]
              /\ response.cache_hit = FALSE)

\* the response to a request whose base_product_id is not in the catalog
C4_Witness ==
    /\ pc = "done"
    /\ request.base_product_id = "NOT_REAL"
    /\ Len(products) > 0

RECURSIVE PriceSum(_)
PriceSum(items) ==
    IF items = <<>> THEN 0 ELSE Head(items).lowest_price + PriceSum(Tail(items))

\* C5: total_price of every returned outfit is the sum of lowest_price over
\* its top, bottom, footwear and accessories.
C5_TotalPrice ==
    \A k \in 1..Len(ResponseOutfits) :
        LET o == ResponseOutfits[k]
        IN  o.total_price = o.top.lowest_price + o.bottom.lowest_price
                              + o.footwear.lowest_price + PriceSum(o.accessories)

\* a returned outfit with an accessory
C5_Witness ==
    \E k \in 1..Len(ResponseOutfits) : Len(ResponseOutfits[k].accessories) >= 1

C7_ContainsBase ==
    (pc = "done" /\ Resolved) =>
        \A k \in 1..Len(response.outfits) :
            LET o == response.outfits[k]
            IN  IF HasSku(allTops, baseProduct.sku_id) THEN o.top = baseProduct
                ELSE IF HasSku(allBottoms, baseProduct.sku_id) THEN o.bottom = baseProduct
                ELSE IF HasSku(allFootwear, baseProduct.sku_id) THEN o.footwear = baseProduct
                ELSE Includes(o.accessories, baseProduct)

\* C8: no item of a returned outfit has lowest_price 0, also when the base
\* product itself has lowest_price 0.
C8_NoZeroPrice ==
    \A k \in 1..Len(ResponseOutfits) :
        \A m \in 1..Len(ItemsOf(ResponseOutfits[k])) :
            ItemsOf(ResponseOutfits[k])[m].lowest_price # 0

\* outfits returned for a base product whose lowest_price is 0, from a
\* catalog with a sold-out product in a mandatory category
C8_Witness ==
    /\ pc = "done"
    /\ Resolved
    /\ baseProduct.lowest_price = 0
    /\ Len(response.outfits) >= 1

PositionIn(catalog, p) ==
    CHOOSE k \in 1..Len(catalog) : catalog[k] = p

\* C9: getBaseProductOptions returns exactly the catalog products with
\* lowest_price > 0, each once, in catalog order, and the catalog is unchanged.
C9_BaseOptions ==
    /\ [](baseOptions.called =>
            LET r == baseOptions.result
            IN  /\ \A k \in 1..Len(r) :
                       /\ r[k].lowest_price > 0
                       /\ Includes(products, r[k])
                /\ \A k \in 1..Len(products) :
                       products[k].lowest_price > 0 =>
                           Cardinality({m \in 1..Len(r) : r[m] = products[k]}) = 1
                /\ \A a, b \in 1..Len(r) :
                       a < b => PositionIn(products, r[a]) < PositionIn(products, r[b]))
    /\ [][products' = products]_vars

\* a result that keeps several products and drops a sold-out one
C9_Witness ==
    /\ baseOptions.called
    /\ Len(baseOptions.result) >= 2
    /\ Len(baseOptions.result) < Len(products)

\* C10: every returned outfit has a top from the tops pool, a bottom from the
\* bottoms pool and a footwear from the footwear pool, none of them null; an
\* attempt that left one of the three slots unfilled adds no outfit.
C10_MandatorySlots ==
    /\ [](\A k \in 1..Len(ResponseOutfits) :
            LET o == ResponseOutfits[k]
            IN  /\ o.top # NULL /\ Includes(allTops, o.top)
                /\ o.bottom # NULL /\ Includes(allBottoms, o.bottom)
                /\ o.footwear # NULL /\ Includes(allFootwear, o.footwear))
    /\ [][(attempt' = attempt + 1
            /\ (lastAttempt'.top = NULL \/ lastAttempt'.bottom = NULL
                  \/ lastAttempt'.shoe = NULL))
          => outfits' = outfits]_vars

\* an attempt that filled one slot and could not fill another
C10_Witness ==
    /\ lastAttempt.outcome = "incomplete"
    /\ lastAttempt.top # NULL
    /\ lastAttempt.shoe = NULL

\* C11: every returned outfit has at least 1 and at most 2 accessories,
\* whatever the catalog (also with no priced accessory, or a single one).
C11_AccessoryCount ==
    \A k \in 1..Len(ResponseOutfits) :
        /\ Len(ResponseOutfits[k].accessories) >= 1
        /\ Len(ResponseOutfits[k].accessories) <= 2

\* match_score as k / 100 with k the nearest integer to 100 * x (halves up)
IsRounded2(score, x) ==
    /\ score.d # 0
    /\ x.d # 0
    /\ (100 * score.n) % score.d = 0
    /\ LET k == (100 * score.n) \div score.d
       IN  /\ 2 * x.d * k <= 2 * 100 * x.n + x.d
           /\ 2 * 100 * x.n + x.d < 2 * x.d * (k + 1)

\* C12: the match_score of every returned outfit is its style_match rounded
\* to 2 decimal places; two outfits of a response with equal style_match
\* have equal match_score, whatever their other four scores are.
C12_MatchScoreIsStyle ==
    \A k \in 1..Len(ResponseOutfits) :
        /\ IsRounded2(ResponseOutfits[k].match_score,
                      ResponseOutfits[k].score_breakdown.style_match)
        /\ \A m \in 1..Len(ResponseOutfits) :
              ResponseOutfits[k].score_breakdown.style_match
                  = ResponseOutfits[m].score_breakdown.style_match
              => ResponseOutfits[k].match_score.n * ResponseOutfits[m].match_score.d
                   = ResponseOutfits[m].match_score.n * ResponseOutfits[k].match_score.d

\* a returned outfit whose style_match is not a whole number of hundredths
\* (the rounding changed it) and differs from its color_harmony
C12_Witness ==
    \E k \in 1..Len(ResponseOutfits) :
        LET b == ResponseOutfits[k].score_breakdown
        IN  /\ (100 * b.style_match.n) % b.style_match.d # 0
            /\ b.style_match # b.color_harmony
            /\ b.style_match # b.brand_cohesion

\* 0.35 * color + 0.30 * style + 0.20 * brand + 0.15 * season (the weight of
\* price_balance is 0), from a score_breakdown
Composite(b) ==
    RatAdd(RatAdd(RatScale(35, 100, b.color_harmony), RatScale(30, 100, b.style_match)),
           RatAdd(RatScale(20, 100, b.brand_cohesion), RatScale(15, 100, b.season_fit)))

\* C13: in a response, the composite score of each outfit, computed from its
\* own score_breakdown, is >= the composite score of the outfit after it.
C13_SortedByComposite ==
    \A k \in 1..(Len(ResponseOutfits) - 1) :
        LET a == Composite(ResponseOutfits[k].score_breakdown)
            b == Composite(ResponseOutfits[k + 1].score_breakdown)
        IN  a.n * b.d >= b.n * a.d

\* a response of three outfits with three different composite scores
C13_Witness ==
    /\ Len(ResponseOutfits) = 3
    /\ \A k \in 1..2 :
          LET a == Composite(ResponseOutfits[k].score_breakdown)
              b == Composite(ResponseOutfits[k + 1].score_breakdown)
          IN  a.n * b.d > b.n * a.d

\* C14: on the scenario catalog the request {TOP_001, num_outfits 1} returns
\* exactly one outfit, made of TOP_001, BOTTOM_001, SHOE_001 and ACC_001, with
\* total_price 5000 and season_fit 1, whatever the random picks.
C14_Scenario ==
    pc = "done" =>
        /\ Len(response.outfits) = 1
        /\ response.outfits[1].top.sku_id = "TOP_001"
        /\ response.outfits[1].bottom.sku_id = "BOTTOM_001"
        /\ response.outfits[1].footwear.sku_id = "SHOE_001"
        /\ Len(response.outfits[1].accessories) = 1
        /\ response.outfits[1].accessories[1].sku_id = "ACC_001"
        /\ response.outfits[1].total_price = 5000
        /\ response.outfits[1].score_breakdown.season_fit.n = 1
        /\ response.outfits[1].score_breakdown.season_fit.d = 1

\* the scenario request has returned on the four-product catalog
C14_Witness ==
    /\ pc = "done"
    /\ request = ScenarioRequest
    /\ SkuIds(products) = {"TOP_001", "BOTTOM_001", "SHOE_001", "ACC_001"}
    /\ products[4].lowest_price = 500
    /\ "bestseller" \in products[4].tags
    /\ attempt = 1
    /\ response.outfits # <<>>

\* C15 as stated: the color matrix scores white-navy as 0.85 and white-white
\* as 0.6, in both lookup directions.
C15_WhiteNavy85 ==
    /\ (scored.fn = "color" /\ {scored.a, scored.b} = {"white", "navy"})
          => scored.result = 85
    /\ (scored.fn = "color" /\ {scored.a, scored.b} = {"white"})
          => scored.result = 60

\* C15 amended: the color matrix scores white-navy as 0.95 and white-white
\* as 0.6, in both lookup directions.
C15_WhiteNavy95 ==
    /\ (scored.fn = "color" /\ {scored.a, scored.b} = {"white", "navy"})
          => scored.result = 95
    /\ (scored.fn = "color" /\ {scored.a, scored.b} = {"white"})
          => scored.result = 60

\* the pair navy-white has been looked up, navy first
C15_Witness ==
    /\ scored.fn = "color"
    /\ scored.a = "navy"
    /\ scored.b = "white"

\* the number of items of a list whose season is the target or "all"
SeasonMatches(items, target) ==
    Cardinality({k \in 1..Len(items) : items[k].season \in {target, "all"}})

\* C16: season_fit is 1 when no season or the season "all" is requested;
\* otherwise it is the number of items whose season is the requested one or
\* "all" over the number of items: 1 when every item is tagged "all", 0 when
\* no item matches.
C16_SeasonFit ==
    scored.fn = "season" =>
        IF scored.b = Absent \/ scored.b = "all"
        THEN scored.result.n = 1 /\ scored.result.d = 1
        ELSE /\ scored.result.d > 0
             /\ scored.result.n * Len(scored.a)
                  = SeasonMatches(scored.a, scored.b) * scored.result.d
             /\ (\A k \in 1..Len(scored.a) : scored.a[k].season = "all")
                   => scored.result.n = scored.result.d
             /\ SeasonMatches(scored.a, scored.b) = 0 => scored.result.n = 0

\* summer requested for three items of which one is tagged "all", one
\* "summer" and one "winter": season_fit 2/3
C16_Witness ==
    /\ scored.fn = "season"
    /\ scored.b = "summer"
    /\ scored.a = <<[season |-> "all"], [season |-> "summer"], [season |-> "winter"]>>
    /\ scored.result.n = 2
    /\ scored.result.d = 3

\* the keys BRAND_TIERS holds, among the lower-cased brand inputs
InBrandMap(brand) ==
    BRAND_TIERS(toLowerCase(brand)) # 0

\* C17: the brand-tier lookup returns an integer in 1..5 for every brand
\* string, 2 for every brand absent from the map, and the same tier for two
\* strings that differ only in letter case.
C17_BrandTier ==
    scored.fn = "brand" =>
        /\ scored.result.type = "number"
        /\ scored.result.value \in 1..5
        /\ ~InBrandMap(scored.a) => scored.result.value = 2
        /\ \A other \in BrandInputs :
              toLowerCase(other) = toLowerCase(scored.a)
                  => BrandTier(other) = scored.result

\* C18: the color matrix is defined on every ordered pair of the 14 color
\* families and the style matrix on every ordered pair of the 6 styles, every
\* entry lies in [0,1], and score(a, b) = score(b, a).
C18_MatricesTotalSymmetric ==
    /\ Cardinality(ColorFamilies) = 14
    /\ Cardinality(StyleTypes) = 6
    /\ (scored.fn = "color" /\ scored.a \in ColorFamilies /\ scored.b \in ColorFamilies)
          => /\ scored.a \in DOMAIN COLOR_HARMONY
             /\ scored.b \in DOMAIN COLOR_HARMONY[scored.a]
             /\ scored.result = COLOR_HARMONY[scored.a][scored.b]
             /\ 0 <= scored.result
             /\ scored.result <= 100
             /\ scored.result = ColorScore(scored.b, scored.a)
    /\ (scored.fn = "style" /\ scored.a \in StyleTypes /\ scored.b \in StyleTypes)
          => /\ scored.a \in DOMAIN STYLE_COMPATIBILITY
             /\ scored.b \in DOMAIN STYLE_COMPATIBILITY[scored.a]
             /\ scored.result = STYLE_COMPATIBILITY[scored.a][scored.b]
             /\ 0 <= scored.result
             /\ scored.result <= 100
             /\ scored.result = StyleScore(scored.b, scored.a)

\* the pair orange-navy of two different enum colors has been looked up
C18_Witness ==
    /\ scored.fn = "color"
    /\ scored.a = "orange"
    /\ scored.b = "navy"
    /\ scored.result = 65

\* C19: an outfit accepted on attempt index i has exactly 1 accessory when i
\* is even and exactly 2 when i is odd.  Inside the loop the outfit accepted
\* by the last attempt is the last of outfits and its index is attempt - 1.
C19_AccessoriesByParity ==
    (pc = "loop" /\ lastAttempt.outcome = "accepted") =>
        Len(outfits[Len(outfits)].accessories) = 1 + ((attempt - 1) % 2)

\* C20: the call terminates; it never runs more than 5 * n attempts, n being
\* the effective outfit count; every attempt, whether it is accepted,
\* incomplete or a duplicate, adds exactly one to the attempt count; and no
\* attempt starts once n outfits have been accepted.
C20_Terminates ==
    /\ [](attempt <= AttemptFactor * numOutfits)
    /\ [][(pc = "loop" /\ pc' = "loop") =>
             /\ attempt' = attempt + 1
             /\ lastAttempt'.outcome \in {"accepted", "incomplete", "duplicate"}
             /\ Len(outfits) < numOutfits
             /\ attempt < AttemptFactor * numOutfits]_vars
    /\ [][attempt' # attempt => (pc = "loop" /\ pc' = "loop")]_vars
    /\ <>(pc = "done")

\* a call that returned after using all 15 attempts of n = 3, the last one
\* discarded as a duplicate
C20_Witness ==
    /\ pc = "done"
    /\ numOutfits = DefaultNumOutfits
    /\ attempt = AttemptFactor * DefaultNumOutfits
    /\ lastAttempt.outcome = "duplicate"
    /\ Len(outfits) >= 1

\* C25: whenever the page's recommendations is non-null, its base_product
\* is the currently selected product, under every interleaving of product
\* clicks, Generate clicks and the timer callback
C25_RecommendationsOfSelected ==
    page.recommendations # NULL =>
        page.recommendations.base_product = page.selectedProduct

\* C26: at most one generation timer is pending at any time, and every
\* Generate click that sets isLoading is eventually followed by isLoading
\* false together with non-null recommendations
C26_OneTimerThenResult ==
    /\ [](Len(page.timers) <= 1)
    /\ [][page'.isLoading /\ ~page.isLoading => Len(page.timers) = 0]_vars
    /\ (page.isLoading ~> (~page.isLoading /\ page.recommendations # NULL))

C26_Witness ==
    /\ ~page.isLoading
    /\ page.timers = <<>>
    /\ page.recommendations # NULL
    /\ page.selectedProduct # NULL

C21_SelectsFromPool ==
    scored.fn = "select" =>
        /\ (scored.result.result = NULL) <=> (Len(scored.a) = 0)
        /\ Len(scored.a) > 0 =>
              \E k \in 1..Len(scored.a) : scored.a[k] = scored.result.result
        /\ scored.result.candidates = scored.a
        /\ scored.result.existingItems = scored.b

C21_Witness ==
    /\ scored.fn = "select"
    /\ Len(scored.a) = MaxPool
    /\ Len(scored.b) = 2
    /\ scored.result.result = scored.a[MaxPool]

\* the selection score of a candidate of the recorded call
C22_Score(item) ==
    CandidateScore(item, scored.b, scored.style)

\* C22: for a non-empty pool the returned item is one of the 3 highest
\* scoring candidates: fewer than 3 candidates score strictly higher than
\* it, for every random pick
C22_AmongTopThree ==
    (scored.fn = "select" /\ Len(scored.a) > 0) =>
        Cardinality({k \in 1..Len(scored.a) :
                        C22_Score(scored.a[k]) > C22_Score(scored.result.result)})
            < 3

\* a pool of 4 with 4 different scores, the third best returned
C22_Witness ==
    /\ scored.fn = "select"
    /\ Len(scored.a) = 4
    /\ Len(scored.b) = 2
    /\ \A i, j \in 1..4 : i # j => C22_Score(scored.a[i]) # C22_Score(scored.a[j])
    /\ Cardinality({k \in 1..4 :
                      C22_Score(scored.a[k]) > C22_Score(scored.result.result)}) = 2

\* the matrix score of two items for the scorer of the recorded call
C24_PairScore(x, y) ==
    IF scored.fn = "colorHarmony"
    THEN ColorScore(ColorOf(x), ColorOf(y))
    ELSE StyleScore(StyleOf(x), StyleOf(y))

\* the scorer of the recorded call on another list
C24_Scorer(items) ==
    IF scored.fn = "colorHarmony"
    THEN calculateColorHarmony(items)
    ELSE calculateStyleMatch(items)

\* twice the sum of the matrix scores over the unordered pairs: every pair
\* counted in both directions
C24_TwicePairSum(items) ==
    SumSeq([i \in 1..Len(items) |->
              SumSeq([j \in 1..Len(items) |->
                        IF i = j THEN 0 ELSE C24_PairScore(items[i], items[j])])])

C23_Reprice(p) ==
    [p EXCEPT !.lowest_price = IF @ > 0 THEN 2500 - @ ELSE @]

\* the catalog that differs from products only in its positive prices
C23_Repriced ==
    [k \in 1..Len(products) |-> C23_Reprice(products[k])]

\* the item a call returns for the random index rank - 1
C23_Pick(pool, existing, style, rank) ==
    LET top3 == TopItems(pool, existing, style)
    IN  IF rank \in 1..Len(top3) THEN top3[rank].item ELSE NULL

\* the random index (plus one) that made a call return item
C23_Rank(pool, existing, style, item) ==
    LET top3 == TopItems(pool, existing, style)
    IN  IF \E r \in 1..Len(top3) : top3[r].item = item
        THEN CHOOSE r \in 1..Len(top3) : top3[r].item = item
        ELSE 0

\* the accessories picked with the given random indices
RECURSIVE C23_ReplayAccessories(_, _, _, _, _)
C23_ReplayAccessories(pool, selected, accessories, ranks, style) ==
    IF ranks = <<>> THEN accessories
    ELSE C23_ReplayAccessories(
             pool, selected,
             Push(accessories, C23_Pick(Without(pool, accessories),
                                        selected \o accessories, style, Head(ranks))),
             Tail(ranks), style)

\* the items of one loop iteration over a catalog, the random picks given
C23_Replay(catalog, ranks) ==
    LET base == getProductById(catalog, request.base_product_id)
        tops == PoolOf(catalog, "tops")
        bottoms == PoolOf(catalog, "bottoms")
        footwear == PoolOf(catalog, "footwear")
        cat == BaseCategoryOf(tops, bottoms, footwear, base)
        style == request.preferred_style
        sel0 == IF cat \in {"tops", "bottoms", "footwear"} THEN <<base>> ELSE <<>>
        top == IF cat = "tops" THEN base
               ELSE C23_Pick(Without(tops, sel0), sel0, style, ranks.top)
        sel1 == IF cat = "tops" THEN sel0 ELSE Push(sel0, top)
        bottom == IF cat = "bottoms" THEN base
                  ELSE C23_Pick(Without(bottoms, sel1), sel1, style, ranks.bottom)
        sel2 == IF cat = "bottoms" THEN sel1 ELSE Push(sel1, bottom)
        shoe == IF cat = "footwear" THEN base
                ELSE C23_Pick(Without(footwear, sel2), sel2, style, ranks.shoe)
        sel3 == IF cat = "footwear" THEN sel2 ELSE Push(sel2, shoe)
    IN  <<top, bottom, shoe>>
          \o C23_ReplayAccessories(PoolOf(catalog, "accessories"), sel3, <<>>,
                                   ranks.accessories, style)

\* the random picks that built an accepted outfit
C23_Ranks(o) ==
    LET style == request.preferred_style
        sel0 == IF baseCategory \in {"tops", "bottoms", "footwear"}
                THEN <<baseProduct>> ELSE <<>>
        sel1 == IF baseCategory = "tops" THEN sel0 ELSE Append(sel0, o.top)
        sel2 == IF baseCategory = "bottoms" THEN sel1 ELSE Append(sel1, o.bottom)
        sel3 == IF baseCategory = "footwear" THEN sel2 ELSE Append(sel2, o.footwear)
    IN  [top    |-> IF baseCategory = "tops" THEN 0
                    ELSE C23_Rank(Without(allTops, sel0), sel0, style, o.top),
         bottom |-> IF baseCategory = "bottoms" THEN 0
                    ELSE C23_Rank(Without(allBottoms, sel1), sel1, style, o.bottom),
         shoe   |-> IF baseCategory = "footwear" THEN 0
                    ELSE C23_Rank(Without(allFootwear, sel2), sel2, style, o.footwear),
         accessories |->
             [i \in 1..Len(o.accessories) |->
                 LET before == SubSeq(o.accessories, 1, i - 1)
                 IN  C23_Rank(Without(allAccessories, before), sel3 \o before,
                              style, o.accessories[i])]]

C23_Skus(items) ==
    [k \in 1..Len(items) |-> items[k].sku_id]

C23_Items(o) ==
    <<o.top, o.bottom, o.footwear>> \o o.accessories

\* the outfit the repriced catalog gives for the picks of outfit o
C23_TwinOutfit(o) ==
    LET items == C23_Replay(C23_Repriced, C23_Ranks(o))
    IN  MakeOutfit(items[1], items[2], items[3], SubSeq(items, 4, Len(items)),
                   request.season)

\* every accepted outfit is what its random picks give over the catalog,
\* and the same picks over the repriced catalog give the same products in
\* the same slots
C23_SameItems ==
    pc = "loop" =>
        \A k \in 1..Len(outfits) :
            /\ C23_Replay(products, C23_Ranks(outfits[k])) = C23_Items(outfits[k])
            /\ C23_Skus(C23_Replay(C23_Repriced, C23_Ranks(outfits[k])))
                 = C23_Skus(C23_Items(outfits[k]))

\* the response orders the outfits as the call over the repriced catalog does
C23_SameOrder ==
    (pc = "loop" /\ pc' = "done") =>
        LET twin == Slice(SortOutfits([k \in 1..Len(outfits) |->
                                          C23_TwinOutfit(outfits[k])]),
                          numOutfits)
        IN  /\ Len(twin) = Len(response'.outfits)
            /\ \A k \in 1..Len(twin) :
                  C23_Skus(C23_Items(twin[k])) = C23_Skus(C23_Items(response'.outfits[k]))

\* C23: prices have no influence on selection or ranking: over two catalogs
\* that differ only in positive lowest_price values, the same request and
\* the same random picks give the same products in the same slots in the
\* same outfit order
C23_PricesDoNotSteer ==
    /\ []C23_SameItems
    /\ [][C23_SameOrder]_vars

\* a response of two outfits whose price balances differ, over a catalog
\* that the repricing changes
C23_Witness ==
    /\ pc = "done"
    /\ Len(response.outfits) >= 2
    /\ response.outfits[1].score_breakdown.price_balance
         # response.outfits[2].score_breakdown.price_balance
    /\ C23_Repriced # products

\* C28: within any returned outfit no product appears twice: top, bottom,
\* footwear and the accessories have pairwise different sku_ids, also when
\* the base product is one of the accessories
C28_NoProductTwice ==
    \A k \in 1..Len(ResponseOutfits) :
        LET items == ItemsOf(ResponseOutfits[k])
        IN  \A i, j \in 1..Len(items) : i # j => items[i].sku_id # items[j].sku_id

\* a returned outfit with two accessories, the base product one of them
C28_Witness ==
    /\ pc = "done"
    /\ \E k \in 1..Len(response.outfits) :
          /\ Len(response.outfits[k].accessories) = 2
          /\ \E i \in 1..2 :
                response.outfits[k].accessories[i].sku_id = request.base_product_id

\* C29: a complete attempt is discarded as a duplicate only if an outfit
\* with the same top, bottom and footwear sku_ids was already accepted in
\* the same call, for every catalog of unique sku_ids, ids with a '-' included
C29_DuplicateMeansSameTriple ==
    lastAttempt.outcome = "duplicate" =>
        \E k \in 1..Len(outfits) :
            Triple(outfits[k]) = <<lastAttempt.top.sku_id, lastAttempt.bottom.sku_id,
                                   lastAttempt.shoe.sku_id>>

\* the first slot the loop fills: bottom when the base product is a top,
\* top otherwise
C30_FirstFiller(o) ==
    IF baseCategory = "tops" THEN o.bottom.sku_id ELSE o.top.sku_id

\* the (top, bottom, footwear) ids one iteration can end with, over every
\* random pick
C30_PossibleTriples ==
    LET style == request.preferred_style
        sel0 == IF baseCategory \in {"tops", "bottoms", "footwear"}
                THEN <<baseProduct>> ELSE <<>>
        tops == IF baseCategory = "tops" THEN {baseProduct}
                ELSE SelectResults(Without(allTops, sel0), sel0, style)
    IN  UNION {
          LET sel1 == IF baseCategory = "tops" THEN sel0 ELSE Push(sel0, top)
              bottoms == IF baseCategory = "bottoms" THEN {baseProduct}
                         ELSE SelectResults(Without(allBottoms, sel1), sel1, style)
          IN  UNION {
                LET sel2 == IF baseCategory = "bottoms" THEN sel1 ELSE Push(sel1, bottom)
                    shoes == IF baseCategory = "footwear" THEN {baseProduct}
                             ELSE SelectResults(Without(allFootwear, sel2), sel2, style)
                IN  {<<top.sku_id, bottom.sku_id, shoe.sku_id>> : shoe \in shoes} :
                bottom \in bottoms} :
          top \in tops}

\* C30: across the outfits of one response the first filler slot takes at
\* most 3 distinct products; when the base product fills a mandatory slot
\* the attempts can end with at most 9 different triples, the outfits have
\* different triples out of these, and so the response has at most 9 outfits
C30_ThreeFirstFillers ==
    pc \in {"loop", "done"} /\ baseProduct # NULL =>
        /\ Cardinality({C30_FirstFiller(outfits[k]) : k \in 1..Len(outfits)}) <= 3
        /\ baseCategory \in {"tops", "bottoms", "footwear"} =>
              /\ Cardinality(C30_PossibleTriples) <= 9
              /\ \A k \in 1..Len(outfits) : Triple(outfits[k]) \in C30_PossibleTriples
              /\ \A i, j \in 1..Len(outfits) :
                    i # j => Triple(outfits[i]) # Triple(outfits[j])
              /\ lastAttempt.outcome \in {"accepted", "duplicate"} =>
                    <<lastAttempt.top.sku_id, lastAttempt.bottom.sku_id,
                      lastAttempt.shoe.sku_id>> \in C30_PossibleTriples
              /\ Len(outfits) <= 9
              /\ pc = "done" => Len(response.outfits) <= 9

\* 4 priced bottoms and a top as base, ManyOutfits asked for: the response
\* holds 3 outfits with 3 different bottoms
C30_Witness ==
    /\ pc = "done"
    /\ numOutfits = ManyOutfits
    /\ baseCategory = "tops"
    /\ Len(allBottoms) = 4
    /\ Len(response.outfits) = 3
    /\ Cardinality({C30_FirstFiller(response.outfits[k]) : k \in 1..3}) = 3

====
